---- MODULE Spec2Model ----
(***************************************************************************)
(* SmartTagger (src/SmartTagger.py): corpus statistics (vocabulary,       *)
(* document frequencies, IDF) and per-record tag enrichment.              *)
(*                                                                         *)
(* Strings are sequences of one-character strings, so that splitting,     *)
(* lower-casing, tokenising, sorting, formatting and parsing are computed *)
(* character by character.  Real numbers are fixed-point thousandths:     *)
(* log10 is a table of floor(1000*log10(n)), weights are integer          *)
(* multiples of it, and a weight is printed with three decimals.          *)
(***************************************************************************)
EXTENDS Integers, Sequences, FiniteSets, TLC

\* Largest number of records in a corpus.
MaxRecords == 3

(***************************************************************************)
(* Characters                                                              *)
(***************************************************************************)
Digit == <<"0", "1", "2", "3", "4", "5", "6", "7", "8", "9">>

\* Unicode code point of a character (the order Python compares str by).
Ord(c) ==
  CASE c = " " -> 32 [] c = "," -> 44 [] c = "-" -> 45 [] c = "." -> 46
    [] c = "0" -> 48 [] c = "1" -> 49 [] c = "2" -> 50 [] c = "3" -> 51
    [] c = "4" -> 52 [] c = "5" -> 53 [] c = "6" -> 54 [] c = "7" -> 55
    [] c = "8" -> 56 [] c = "9" -> 57
    [] c = "A" -> 65 [] c = "B" -> 66 [] c = "C" -> 67 [] c = "D" -> 68
    [] c = "a" -> 97 [] c = "b" -> 98 [] c = "c" -> 99 [] c = "d" -> 100

\* str.lower(), per character.
LowerChar(c) ==
  CASE c = "A" -> "a" [] c = "B" -> "b" [] c = "C" -> "c" [] c = "D" -> "d"
    [] OTHER -> c

\* str.lower()
lower(s) == [k \in 1..Len(s) |-> LowerChar(s[k])]

\* \w of the vectorizer's token pattern: letters and digits.
IsWordChar(c) == Ord(c) >= 48

\* Python's < on str: lexicographic by code point, a proper prefix is less.
RECURSIVE StrLess(_, _)
StrLess(s, t) ==
  IF t = <<>> THEN FALSE
  ELSE IF s = <<>> THEN TRUE
  ELSE IF Head(s) = Head(t) THEN StrLess(Tail(s), Tail(t))
  ELSE Ord(Head(s)) < Ord(Head(t))

\* str.split(','): the pieces between commas, empty pieces included.
RECURSIVE SplitAcc(_, _, _)
SplitAcc(s, cur, acc) ==
  IF s = <<>> THEN Append(acc, cur)
  ELSE IF Head(s) = "," THEN SplitAcc(Tail(s), <<>>, Append(acc, cur))
  ELSE SplitAcc(Tail(s), Append(cur, Head(s)), acc)

split(s) == SplitAcc(s, <<>>, <<>>)

\* ','.join(parts)
RECURSIVE join(_)
join(parts) ==
  IF parts = <<>> THEN <<>>
  ELSE IF Len(parts) = 1 THEN parts[1]
  ELSE parts[1] \o <<",">> \o join(Tail(parts))

Range(q) == {q[k] : k \in 1..Len(q)}

(***************************************************************************)
(* Numbers                                                                 *)
(***************************************************************************)
\* np.log10 on 1..12, in thousandths (floor).
Log10Table == <<0, 301, 477, 602, 698, 778, 845, 903, 954, 1000, 1041, 1079>>

log10(n) == Log10Table[n]

\* Decimal digits of a natural number.
RECURSIVE Digits(_)
Digits(n) == IF n < 10 THEN <<Digit[n + 1]>> ELSE Digits(n \div 10) \o <<Digit[(n % 10) + 1]>>

FormatAbs(w) ==
  Digits(w \div 1000) \o <<".">> \o
  <<Digit[((w \div 100) % 10) + 1], Digit[((w \div 10) % 10) + 1], Digit[(w % 10) + 1]>>

\* f'{weight}': the weight in thousandths printed as [-]<int>.<3 decimals>.
FormatWeight(w) == IF w < 0 THEN <<"-">> \o FormatAbs(0 - w) ELSE FormatAbs(w)

(***************************************************************************)
(* Python dict: a sequence of <<key, value>> pairs in insertion order.     *)
(***************************************************************************)
Keys(d) == {d[k][1] : k \in 1..Len(d)}

\* d.get(key, default)
DictGet(d, key, default) ==
  IF key \in Keys(d)
    THEN d[CHOOSE k \in 1..Len(d) : d[k][1] = key][2]
    ELSE default

\* d[key] = value: an existing key keeps its position, a new one goes last.
DictSet(d, key, value) ==
  IF key \in Keys(d)
    THEN [k \in 1..Len(d) |-> IF d[k][1] = key THEN <<key, value>> ELSE d[k]]
    ELSE Append(d, <<key, value>>)

(***************************************************************************)
(* fit: vocabulary, document frequencies and IDF                           *)
(***************************************************************************)
\* fit_transform, line 38: the set of lower-cased non-empty tags of the table.
tags_vocab(table) ==
  {lower(tag) : tag \in {p \in UNION {Range(split(table[k].tags)) : k \in 1..Len(table)} : p # <<>>}}

\* Line 56 without the seen test.
CountsOnce_always(tag, seen) == tag # <<>>

\* _compute_idfs, line 56: the tag is non-empty and not yet seen in this row.
CountsOnce(tag, seen) == tag # <<>> /\ tag \notin seen

\* _compute_idfs, lines 54-58: the scan of one row's tags with its seen set.
RECURSIVE CountRow(_, _, _)
CountRow(pieces, seen, counts) ==
  IF pieces = <<>> THEN counts
  ELSE LET tag == lower(Head(pieces)) IN
       IF CountsOnce(tag, seen)
         THEN CountRow(Tail(pieces), seen \cup {tag}, [counts EXCEPT ![tag] = @ + 1])
         ELSE CountRow(Tail(pieces), seen, counts)

\* _compute_idfs, lines 51-58: seen starts empty at every row.
RECURSIVE CountRows(_, _)
CountRows(rows, counts) ==
  IF rows = <<>> THEN counts
  ELSE CountRows(Tail(rows), CountRow(split(Head(rows).tags), {}, counts))

compute_nts(table, vocab) == CountRows(table, [tag \in vocab |-> 0])

\* Lines 60-61 with N smoothed to N + 1.
compute_idfs_smoothed(N, counts) ==
  [tag \in DOMAIN counts |-> log10(N + 1) - log10(counts[tag])]

\* _compute_idfs, lines 60-61: log10(N) - log10(n_t) for every counted tag.
compute_idfs(N, counts) == [tag \in DOMAIN counts |-> log10(N) - log10(counts[tag])]

(***************************************************************************)
(* The term matcher: CountVectorizer(vocabulary=_cv_vocab) with its        *)
(* defaults (lowercase=True, token_pattern (?u)\b\w\w+\b).                 *)
(***************************************************************************)
\* The maximal runs of word characters that are at least two long.
RECURSIVE TokAcc(_, _, _)
TokAcc(s, cur, acc) ==
  IF s = <<>> THEN (IF Len(cur) >= 2 THEN Append(acc, cur) ELSE acc)
  ELSE IF IsWordChar(Head(s)) THEN TokAcc(Tail(s), Append(cur, Head(s)), acc)
  ELSE TokAcc(Tail(s), <<>>, IF Len(cur) >= 2 THEN Append(acc, cur) ELSE acc)

\* The analyzer: lower-case the document, then tokenise it.
analyze(doc) == TokAcc(lower(doc), <<>>, <<>>)

\* _cv.transform([doc]): per vocabulary index, the number of tokens equal to it.
transform(vocab, doc) ==
  LET toks == analyze(doc) IN
  [index \in 1..Len(vocab) |-> Cardinality({k \in 1..Len(toks) : toks[k] = vocab[index]})]

\* tag_counts.nonzero()[1]: the indices with a non-zero count, ascending.
nonzero(counts) == SelectSeq([k \in 1..Len(counts) |-> k], LAMBDA k : counts[k] > 0)

(***************************************************************************)
(* _enrich_tags                                                            *)
(***************************************************************************)
\* Line 18 with a repeated key adding up.
ComprehensionStore_adding(d, key, value) == DictSet(d, key, DictGet(d, key, 0) + value)

\* The store of the dict comprehension of line 18: a repeated key is overwritten.
ComprehensionStore(d, key, value) == DictSet(d, key, value)

\* Line 18: {tag.lower(): weights['tags'] * idfs_[tag.lower()] for tag in pieces if tag}
RECURSIVE Comprehension(_, _, _, _)
Comprehension(pieces, w, idfs, d) ==
  IF pieces = <<>> THEN d
  ELSE IF Head(pieces) # <<>>
    THEN Comprehension(Tail(pieces), w, idfs,
           ComprehensionStore(d, lower(Head(pieces)), w["tags"] * idfs[lower(Head(pieces))]))
    ELSE Comprehension(Tail(pieces), w, idfs, d)

\* Line 23 with the id weight for both features.
FeatureWeight_id(w, feature) == w["id"]

\* Line 23: weight = self.weights[feature]
FeatureWeight(w, feature) == w[feature]

\* Line 28 without the accumulated value.
Accumulate_overwriting(old, weight, idf) == weight * idf

\* Line 28: tag_weights.get(term, 0) + weight * idf
Accumulate(old, weight, idf) == old + weight * idf

\* Lines 25-28: the loop over the matched vocabulary indices of one field.
RECURSIVE MineTerms(_, _, _, _, _)
MineTerms(indices, vocab, weight, idfs, tw) ==
  IF indices = <<>> THEN tw
  ELSE LET term == vocab[Head(indices)]
           idf == idfs[term]
       IN MineTerms(Tail(indices), vocab, weight, idfs,
                    DictSet(tw, term, Accumulate(DictGet(tw, term, 0), weight, idf)))

\* Lines 22-28 for one feature.
MineFeature(row, feature, w, idfs, vocab, tw) ==
  MineTerms(nonzero(transform(vocab, row[feature])), vocab, FeatureWeight(w, feature), idfs, tw)

\* Python's < on the (term, weight) tuples of tag_weights.items().
PairLess(p, q) == StrLess(p[1], q[1]) \/ (p[1] = q[1] /\ p[2] < q[2])

\* Insertion of one pair into an ascending list.
RECURSIVE InsertSorted(_, _)
InsertSorted(p, sortedSeq) ==
  IF sortedSeq = <<>> THEN <<p>>
  ELSE IF PairLess(p, Head(sortedSeq)) THEN <<p>> \o sortedSeq
  ELSE <<Head(sortedSeq)>> \o InsertSorted(p, Tail(sortedSeq))

RECURSIVE SortPairs(_)
SortPairs(items) ==
  IF items = <<>> THEN <<>> ELSE InsertSorted(Head(items), SortPairs(Tail(items)))

\* Line 30 without the sort: the pairs in insertion order.
sorted_unsorted(items) == items

\* Line 30: sorted(tag_weights.items())
sorted(items) == SortPairs(items)

\* Lines 30 and 32: ','.join(f'{term} {weight}' for the sorted pairs)
Serialize(tw) ==
  LET items == sorted(tw) IN
  join([k \in 1..Len(items) |-> items[k][1] \o <<" ">> \o FormatWeight(items[k][2])])

\* Lines 31-32: a copy of the row with the etags column set.
WithEtags(row, etags) ==
  [f \in DOMAIN row \cup {"etags"} |-> IF f = "etags" THEN etags ELSE row[f]]

(***************************************************************************)
(* Inputs                                                                  *)
(***************************************************************************)
s_ab == <<"a", "b">>
s_cd == <<"c", "d">>

\* The records a table is built from.
Pool ==
  { [id |-> <<>>, tags |-> <<"A", "b", ",", "a", "b">>,
     description |-> <<"A", "B", " ", "c", "d">>],
    [id |-> <<>>, tags |-> <<>>, description |-> <<>>],
    [id |-> s_ab, tags |-> <<"c", "d", ",", "a", " ", "b">>,
     description |-> <<"c", "d", " ", "a", " ", "b">>],
    [id |-> s_cd, tags |-> <<"c", "d", ",", ",", "c", "d", ",", "a", "b">>,
     description |-> s_ab] }

Tables == UNION {[1..n -> Pool] : n \in 0..MaxRecords}

\* The constructor's weights: the defaults, with description or id set to 0.
WeightChoices == [description : {0, 4}, id : {0, 6}, tags : {2}]

\* The vocabulary words the dictionary may know.
DictionaryChoices == {{}, {s_ab}, {s_cd}}

\* The orders in which a set may be iterated.
Orders(S) == {q \in [1..Cardinality(S) -> S] : Range(q) = S}

(***************************************************************************)
(* State                                                                   *)
(***************************************************************************)
VARIABLES
  pc,           \* "start", "apply" (inside df.apply), "done", "error"
  df,           \* the table passed to fit_transform
  weights,      \* self.weights
  english,      \* the words self._english.check accepts
  tags_vocab_,  \* self.tags_vocab_
  nts,          \* the document frequencies counted by _compute_idfs
  idfs_,        \* self.idfs_
  cv_vocab,     \* self._cv_vocab, the vocabulary of self._cv
  tag_weights,  \* tag_weights of the latest _enrich_tags call
  out           \* the rows _enrich_tags has returned to df.apply

vars == <<pc, df, weights, english, tags_vocab_, nts, idfs_, cv_vocab, tag_weights, out>>

\* Lines 12-13 with every term passing the filter.
is_hack_word_any(term) == TRUE

\* Lines 12-13: the dictionary does not know the term.
is_hack_word(term) == term \notin english

\* Lines 16-20 on one dict kept across the calls.
SeedTagWeights_shared(row, w, idfs) ==
  IF row.tags # <<>> THEN Comprehension(split(row.tags), w, idfs, tag_weights) ELSE tag_weights

\* Lines 16-20: the map seeded from the declared tags, a new dict every call.
SeedTagWeights(row, w, idfs) ==
  IF row.tags # <<>> THEN Comprehension(split(row.tags), w, idfs, <<>>) ELSE <<>>

\* Lines 16-28: tag_weights when the loop over the two features ends.
TagWeights(row, w, idfs, vocab) ==
  MineFeature(row, "id", w, idfs, vocab,
    MineFeature(row, "description", w, idfs, vocab, SeedTagWeights(row, w, idfs)))

\* Lines 31-32 without the copy: etags is set on the row passed in.
RowAfterCall_aliased(row, etags) == WithEtags(row, etags)

\* Lines 31-32: the row passed in, after the call; etags went to the copy.
RowAfterCall(row, etags) == row

\* The tagger as constructed, and the table fit_transform is called with.
Init ==
  /\ pc = "start"
  /\ df \in Tables
  /\ weights \in WeightChoices
  /\ english \in DictionaryChoices
  /\ tags_vocab_ = {}
  /\ nts = [t \in {} |-> 0]
  /\ idfs_ = [t \in {} |-> 0]
  /\ cv_vocab = <<>>
  /\ tag_weights = <<>>
  /\ out = <<>>

\* fit_transform, lines 38-42: vocabulary, IDF table and the matcher's
\* vocabulary, listed in the iteration order of the set.
Fit ==
  /\ pc = "start"
  /\ tags_vocab_' = tags_vocab(df)
  /\ nts' = compute_nts(df, tags_vocab_')
  /\ idfs_' = compute_idfs(Len(df), nts')
  /\ cv_vocab' \in Orders({term \in tags_vocab_' : is_hack_word(term)})
  /\ pc' = "apply"
  /\ UNCHANGED <<df, weights, english, tag_weights, out>>

\* df.apply, line 44: _enrich_tags on the next row.
EnrichRow ==
  /\ pc = "apply"
  /\ Len(out) < Len(df)
  /\ cv_vocab # <<>>
  /\ LET k == Len(out) + 1
         tw == TagWeights(df[k], weights, idfs_, cv_vocab)
         etags == Serialize(tw)
     IN /\ tag_weights' = tw
        /\ out' = Append(out, WithEtags(df[k], etags))
        /\ df' = [df EXCEPT ![k] = RowAfterCall(df[k], etags)]
  /\ UNCHANGED <<pc, weights, english, tags_vocab_, nts, idfs_, cv_vocab>>

\* Line 24 on an empty _cv_vocab: the vectorizer rejects an empty vocabulary
\* with ValueError, which ends df.apply and fit_transform.
RaiseEmptyVocabulary ==
  /\ pc = "apply"
  /\ Len(out) < Len(df)
  /\ cv_vocab = <<>>
  /\ tag_weights' = SeedTagWeights(df[Len(out) + 1], weights, idfs_)
  /\ pc' = "error"
  /\ UNCHANGED <<df, weights, english, tags_vocab_, nts, idfs_, cv_vocab, out>>

\* df.apply has no row left: fit_transform returns the enriched table.
Return ==
  /\ pc = "apply"
  /\ Len(out) = Len(df)
  /\ pc' = "done"
  /\ UNCHANGED <<df, weights, english, tags_vocab_, nts, idfs_, cv_vocab, tag_weights, out>>

Next == Fit \/ EnrichRow \/ RaiseEmptyVocabulary \/ Return

Spec == Init /\ [][Next]_vars

TypeOK ==
  /\ pc \in {"start", "apply", "done", "error"}
  /\ Len(out) <= Len(df)

(***************************************************************************)
(* Reading an etags string back                                            *)
(***************************************************************************)
\* The "term weight" pairs of an etags string; the empty string has none.
Entries(etags) == IF etags = <<>> THEN <<>> ELSE split(etags)

\* The space between term and weight is the last one of the pair: a declared
\* tag may contain spaces, a printed weight never does.
RECURSIVE LastSpaceFrom(_, _)
LastSpaceFrom(e, k) == IF e[k] = " " THEN k ELSE LastSpaceFrom(e, k - 1)

LastSpace(e) == LastSpaceFrom(e, Len(e))

TermOf(e) == SubSeq(e, 1, LastSpace(e) - 1)

RECURSIVE ParseNat(_, _)
ParseNat(text, acc) ==
  IF text = <<>> THEN acc
  ELSE IF Head(text) = "." THEN ParseNat(Tail(text), acc)
  ELSE ParseNat(Tail(text), 10 * acc + (Ord(Head(text)) - 48))

\* The printed weight, back in thousandths.
WeightOf(e) ==
  LET text == SubSeq(e, LastSpace(e) + 1, Len(e)) IN
  IF Head(text) = "-" THEN 0 - ParseNat(Tail(text), 0) ELSE ParseNat(text, 0)

\* The terms of an etags string, in the order they are listed.
TermList(etags) == LET es == Entries(etags) IN [k \in 1..Len(es) |-> TermOf(es[k])]

EtagTerms(etags) == Range(TermList(etags))

\* The <<term, weight>> pairs of an etags string.
EtagPairs(etags) == {<<TermOf(e), WeightOf(e)>> : e \in Range(Entries(etags))}

(***************************************************************************)
(* Vocabulary of the properties                                             *)
(***************************************************************************)
\* The declared tags of a record: comma-separated, non-empty, lower-cased.
DeclaredTags(row) == {lower(p) : p \in Range(split(row.tags)) \ {<<>>}}

\* The records of the table that declare the term.
TaggedOn(t) == {k \in 1..Len(df) : \E p \in Range(split(df[k].tags)) : p # <<>> /\ lower(p) = t}

\* The vocabulary terms the dictionary does not recognise.
FilteredVocabulary == {t \in tags_vocab_ : t \notin english}

\* The Filtered-Vocabulary terms matched in a text.
Matched(text) == FilteredVocabulary \cap Range(analyze(text))

Fitted == pc \in {"apply", "done", "error"}

(***************************************************************************)
(* Properties                                                              *)
(***************************************************************************)
\* C1: a term that is a declared tag of an enriched record and a
\* Filtered-Vocabulary term matched in its description but not in its id is
\* listed in etags with weight weights.tags*idf + weights.description*idf.
AdditivityAcrossSources ==
  \A k \in 1..Len(out) :
    \A t \in (DeclaredTags(df[k]) \cap Matched(df[k].description)) \ Matched(df[k].id) :
      <<t, weights.tags * idfs_[t] + weights.description * idfs_[t]>> \in EtagPairs(out[k].etags)

\* A record was enriched whose declared tag is also mined from the description
\* only, with a non-zero IDF and both weights non-zero.
AdditivityWitness ==
  \E k \in 1..Len(out) :
    \E t \in (DeclaredTags(df[k]) \cap Matched(df[k].description)) \ Matched(df[k].id) :
      /\ idfs_[t] > 0
      /\ weights.tags > 0
      /\ weights.description > 0

\* C3: the terms of every enriched record's etags, pair by pair (the term is
\* what precedes the space that separates it from the weight), are strictly
\* ascending by code point, so that no term is listed twice.
EtagsStrictlyAscending ==
  \A k \in 1..Len(out) :
    LET terms == TermList(out[k].etags) IN
    \A j \in 1..(Len(terms) - 1) : StrLess(terms[j], terms[j + 1])

\* A record was enriched to three terms or more, one of them a declared tag
\* with a space in it, one mined and not declared, and its declared tags were
\* not in ascending order in the tags field.
EtagsOrderingWitness ==
  \E k \in 1..Len(out) :
    LET terms == EtagTerms(out[k].etags) IN
    /\ Cardinality(terms) >= 3
    /\ \E t \in terms : \E j \in 1..Len(t) : t[j] = " "
    /\ terms \ DeclaredTags(df[k]) # {}
    /\ \E pieces \in {split(df[k].tags)} :
         \E j \in 1..(Len(pieces) - 1) : StrLess(pieces[j + 1], pieces[j])

\* C5: after fit on a non-empty table the IDF table is keyed by the
\* Vocabulary; every term has 1 <= n_t <= N and 0 <= idf <= log10(N); idf is 0
\* exactly for the terms tagged on every record and log10(N) exactly for the
\* terms tagged on one record.
IdfTableInvariant ==
  (Fitted /\ Len(df) >= 1) =>
    /\ DOMAIN idfs_ = tags_vocab_
    /\ tags_vocab_ = UNION {DeclaredTags(df[k]) : k \in 1..Len(df)}
    /\ \A t \in tags_vocab_ :
         /\ 1 <= nts[t] /\ nts[t] <= Len(df)
         /\ 0 <= idfs_[t] /\ idfs_[t] <= log10(Len(df))
         /\ idfs_[t] = 0 <=> TaggedOn(t) = 1..Len(df)
         /\ idfs_[t] = log10(Len(df)) <=> Cardinality(TaggedOn(t)) = 1

\* A table of three records was fitted with a term tagged on every record
\* and a term tagged on two of them.
IdfTableWitness ==
  /\ Fitted
  /\ Len(df) = 3
  /\ \E t \in tags_vocab_ : idfs_[t] = 0
  /\ \E t \in tags_vocab_ : 0 < idfs_[t] /\ idfs_[t] < log10(Len(df))

\* C10: the count n_t behind idf(t) is the number of records whose declared
\* tags (split on commas, empty tokens dropped, lower-cased) contain t, a
\* record counting once however often it repeats t.
DocumentFrequencyCount ==
  Fitted => \A t \in tags_vocab_ : nts[t] = Cardinality(TaggedOn(t))

\* A table was fitted in which one record repeats a tag in two letter cases
\* and another record declares the same tag.
DocumentFrequencyWitness ==
  /\ Fitted
  /\ \E k \in 1..Len(df) : \E t \in tags_vocab_ :
       /\ Cardinality({j \in 1..Len(split(df[k].tags)) : lower(split(df[k].tags)[j]) = t}) >= 2
       /\ Cardinality({split(df[k].tags)[j] : j \in 1..Len(split(df[k].tags))}
                        \cap {p \in Range(split(df[k].tags)) : lower(p) = t}) >= 2
       /\ nts[t] >= 2

\* The first occurrence of every lower-cased tag of a tags field, re-joined.
RECURSIVE OncePieces(_, _)
OncePieces(pieces, seen) ==
  IF pieces = <<>> THEN <<>>
  ELSE IF lower(Head(pieces)) \in seen THEN OncePieces(Tail(pieces), seen)
  ELSE <<Head(pieces)>> \o OncePieces(Tail(pieces), seen \cup {lower(Head(pieces))})

DeclaredOnce(tags) == join(OncePieces(split(tags), {}))

\* The tags a record declares more than once, letter case aside.
RepeatedTags(row) ==
  LET pieces == split(row.tags) IN
  {t \in DeclaredTags(row) : Cardinality({j \in 1..Len(pieces) : lower(pieces[j]) = t}) >= 2}

\* The table with record k declaring each of its tags once.
TableOnce(k) == [df EXCEPT ![k].tags = DeclaredOnce(@)]

\* C2: a record that repeats a tag, in any letter case, gets the weight for
\* that tag that it gets in the same table with the tag declared once, and the
\* tag's document frequency is the same in both tables.
DuplicateTagIdempotence ==
  \A k \in 1..Len(out) :
    LET table == TableOnce(k)
        counts == compute_nts(table, tags_vocab(table))
        idfs == compute_idfs(Len(table), counts)
        once == EtagPairs(Serialize(TagWeights(table[k], weights, idfs, cv_vocab)))
        pairs == EtagPairs(out[k].etags)
    IN \A t \in RepeatedTags(df[k]) :
         /\ counts[t] = nts[t]
         /\ \E p \in once : p[1] = t /\ p \in pairs

\* A record was enriched that repeats a tag of non-zero weight in two letter
\* cases, and one that repeats a tag in the same letter case.
DuplicateTagWitness ==
  /\ \E k \in 1..Len(out) : \E t \in RepeatedTags(df[k]) :
       /\ \E p \in EtagPairs(out[k].etags) : p[1] = t /\ p[2] > 0
       /\ Cardinality({p \in Range(split(df[k].tags)) : lower(p) = t}) >= 2
  /\ \E k \in 1..Len(out) : \E t \in RepeatedTags(df[k]) :
       Cardinality({p \in Range(split(df[k].tags)) : lower(p) = t}) = 1

KnownTokens(text) == (tags_vocab_ \cap english) \cap Range(analyze(text))

EmptyCorpusFails == Len(df) = 0 => pc # "done"

\* C7: a call of _enrich_tags leaves the table's rows, the Vocabulary, the
\* IDF table and the matcher's vocabulary as they were, and the row it returns
\* has the fields of the source row with their values, and etags.
EnrichmentNoSideEffects ==
  [][Len(out') = Len(out) + 1 =>
       /\ df' = df
       /\ tags_vocab_' = tags_vocab_
       /\ idfs_' = idfs_
       /\ cv_vocab' = cv_vocab
       /\ DOMAIN out'[Len(out')] = DOMAIN df[Len(out')] \cup {"etags"}
       /\ "etags" \notin DOMAIN df[Len(out')]
       /\ \A f \in DOMAIN df[Len(out')] : out'[Len(out')][f] = df[Len(out')][f]]_vars

\* Every record of a table of three was enriched, the last to a non-empty
\* etags.
EnrichmentNoSideEffectsWitness ==
  /\ Len(out) = 3
  /\ out[3].etags # <<>>
  /\ \A k \in 1..3 : DOMAIN df[k] = {"id", "description", "tags"}

Reverse(q) == [k \in 1..Len(q) |-> q[Len(q) + 1 - k]]

\* The etags of a record as the first call of _enrich_tags, after a fit of the
\* table in reverse order with the matcher's vocabulary in reverse order.
EtagsReversed(row) ==
  LET table == Reverse(df)
      idfs == compute_idfs(Len(table), compute_nts(table, tags_vocab(table)))
  IN Serialize(TagWeights(row, weights, idfs, Reverse(cv_vocab)))

\* C8: two records of the table with the same fields get the same etags,
\* whatever was enriched before or between them, and it is the etags the
\* record gets when the table is given and enriched in the reverse order.
EnrichmentDeterministic ==
  \A k \in 1..Len(out) :
    /\ \A j \in 1..Len(out) :
         (\A f \in {"id", "description", "tags"} : df[j][f] = df[k][f])
           => out[j].etags = out[k].etags
    /\ out[k].etags = EtagsReversed([f \in {"id", "description", "tags"} |-> df[k][f]])

\* The same record was enriched first and third with a different record in
\* between, to an etags with a mined non-zero weight.
EnrichmentDeterministicWitness ==
  /\ Len(out) = 3
  /\ out[1].etags = out[3].etags
  /\ df[1].tags = df[3].tags /\ df[1].id = df[3].id
  /\ df[1].description = df[3].description
  /\ df[2].tags # df[1].tags
  /\ out[2].etags # <<>>
  /\ \E t \in Matched(df[1].description) : \E p \in EtagPairs(out[1].etags) :
       p[1] = t /\ p[2] > 0

\* The etags of record k had its field f been empty.
EtagsWithout(k, f) ==
  Serialize(TagWeights([df[k] EXCEPT ![f] = <<>>], weights, idfs_, cv_vocab))

\* The terms that only field f of record k brings into its etags.
OnlyFrom(k, f) == Matched(df[k][f]) \ EtagTerms(EtagsWithout(k, f))

\* C9 as stated: with weights.description = 0 (weights.id = 0) a record gets
\* the etags it would get with an empty description (id).
ZeroWeightDropsSource ==
  \A k \in 1..Len(out) : \A f \in {"description", "id"} :
    weights[f] = 0 => out[k].etags = EtagsWithout(k, f)

\* C9 amended: with weights.description = 0 (weights.id = 0) a record's etags
\* gives every term of the empty-description (empty-id) etags the same weight
\* and lists, with weight 0, the terms matched in that field only.
ZeroWeightAddsNoWeight ==
  \A k \in 1..Len(out) : \A f \in {"description", "id"} :
    weights[f] = 0 =>
      LET without == EtagPairs(EtagsWithout(k, f)) IN
      EtagPairs(out[k].etags) =
        without \cup {<<t, 0>> : t \in Matched(df[k][f]) \ {p[1] : p \in without}}

\* Under a zero description weight and non-zero id and tags weights, a record
\* was enriched with a term of non-zero IDF matched in its description only,
\* and a record with a declared term of non-zero IDF matched in its
\* description as well.
ZeroWeightWitness ==
  /\ weights.description = 0 /\ weights.id > 0 /\ weights.tags > 0
  /\ \E k \in 1..Len(out) : \E t \in OnlyFrom(k, "description") : idfs_[t] > 0
  /\ \E k \in 1..Len(out) :
       \E t \in Matched(df[k].description) \cap DeclaredTags(df[k]) : idfs_[t] > 0

====
